---- MODULE Spec2Model ----
(***************************************************************************)
(* Model of the two protocols of pwem:                                     *)
(*   ProtImportCTF      (protocols/protocol_import/ctfs.py)                *)
(*   ProtExportDataBases (protocols/protocol_export/protocol_export_DB.py) *)
(* Strings are sequences of one-character strings, so that Python's        *)
(* substring test (in) and str.endswith are computed character-wise.       *)
(***************************************************************************)
EXTENDS Integers, Sequences, FiniteSets, TLC

VARIABLES
    \* ---- ProtImportCTF ----
    importFrom,        \* self.importFrom.get()
    files,             \* what self.iterFiles() yields: [name, id] in order
    inputMics,         \* self.inputMicrographs.get(), in order
    badFiles,          \* file names for which ci.importCTF raises
    ciGetMicCTF,       \* the importer class has its own getMicCTF method
    pc,                \* position in importCTFStep
    ci,                \* result of getImportClass()
    idx,               \* index of the next micrograph of the loop
    ctfSet,            \* ctfSet: the CTFs appended so far
    outputMics,        \* outputMics: the micrographs appended so far
    createOutputMics,  \* the flag of line 125
    warnings,          \* what self.warning() logged, in order
    outputs,           \* what _defineOutputs / _defineCtfRelation defined
    validated,         \* _validate() has run
    errors,            \* what _validate() returned
    raised,            \* the exception importCTFStep ended with, or "none"
    \* ---- ProtExportDataBases ----
    xin,               \* the form parameters of the export protocol
    xpc,               \* position of the export protocol run
    steps,             \* the steps inserted by _insertAllSteps, in order
    stepIdx,           \* index of the next step to run
    written,           \* the files present in the export directory
    calls              \* the converter calls made, in order

ivars == <<importFrom, files, inputMics, badFiles, ciGetMicCTF, pc, ci, idx,
           ctfSet, outputMics, createOutputMics, warnings, outputs,
           validated, errors, raised>>
xvars == <<xin, xpc, steps, stepIdx, written, calls>>
vars == <<ivars, xvars>>

\* ------------------------------------------------------------------ bounds
MaxMics == 2
MaxFiles == 2

\* ------------------------------------------------------------- string ops
Range(s) == {s[i] : i \in 1..Len(s)}

\* Python: sub in s
Contains(sub, s) ==
    \E i \in 0..(Len(s) - Len(sub)) : SubSeq(s, i + 1, i + Len(sub)) = sub

\* Python: s.endswith(suf)
EndsWith(s, suf) ==
    /\ Len(suf) <= Len(s)
    /\ SubSeq(s, Len(s) - Len(suf) + 1, Len(s)) = suf

MaxOf(S) == CHOOSE m \in S : \A k \in S : k <= m

\* os.path.basename
Basename(s) ==
    LET seps == {i \in 1..Len(s) : s[i] = "/"}
    IN  IF seps = {} THEN s ELSE SubSeq(s, MaxOf(seps) + 1, Len(s))

\* os.path.splitext(s)[0] for a name without directory: the extension starts
\* at the last dot, unless only dots precede it
RemoveExt(s) ==
    LET dots == {i \in 1..Len(s) : s[i] = "."}
    IN  IF dots = {} THEN s
        ELSE LET k == MaxOf(dots)
             IN  IF \E j \in 1..(k - 1) : s[j] # "." THEN SubSeq(s, 1, k - 1)
                 ELSE s

\* pyworkflow.utils.removeBaseExt, as used at lines 134 and 144
removeBaseExt(s) == RemoveExt(Basename(s))

\* ---------------------------------------------------------- ProtImportCTF
IMPORT_FROM_AUTO == 0
IMPORT_FROM_XMIPP3 == 1
IMPORT_FROM_GRIGORIEFF == 2
IMPORT_FROM_GCTF == 3
IMPORT_FROM_EMAN2 == 4
IMPORT_FROM_SCIPION == 5
\* getFormat's result when no extension is recognised
FORMAT_UNKNOWN == -1
\* a value of importFrom outside the declared choices
UndeclaredChoice == IMPORT_FROM_SCIPION + 1
\* _getImportChoices: the index of each declared choice
ImportChoices == {IMPORT_FROM_AUTO, IMPORT_FROM_XMIPP3, IMPORT_FROM_GRIGORIEFF,
                  IMPORT_FROM_GCTF, IMPORT_FROM_EMAN2, IMPORT_FROM_SCIPION}

\* the fileId of iterFiles when the pattern holds no '#'
NoId == 0

ExtLog == <<".", "l", "o", "g">>
ExtTxt == <<".", "t", "x", "t">>
ExtOut == <<".", "o", "u", "t">>
ExtCtfparam == <<".", "c", "t", "f", "p", "a", "r", "a", "m">>
ExtJson == <<".", "j", "s", "o", "n">>
ExtStar == <<".", "s", "t", "a", "r">>
ExtMrc == <<".", "m", "r", "c">>

\* The micrographs the inputs are drawn from.  m1 is a proper substring of
\* m10; the third micrograph's name differs from its file's base name.
MicPool ==
    { [objId |-> 1, micName |-> <<"m", "1">> \o ExtMrc,
       fileName |-> <<"m", "1">> \o ExtMrc],
      [objId |-> 2, micName |-> <<"m", "1", "0">> \o ExtMrc,
       fileName |-> <<"d", "/", "m", "1", "0">> \o ExtMrc],
      [objId |-> 3, micName |-> <<"n", "3">>,
       fileName |-> <<"k">> \o ExtMrc] }

\* The files the inputs are drawn from
FilePool ==
    { [name |-> <<"m", "1">> \o ExtLog, id |-> NoId],
      [name |-> <<"m", "1", "0">> \o ExtLog, id |-> NoId],
      [name |-> <<"x", "m", "1", "_">> \o ExtJson, id |-> NoId],
      [name |-> <<"n", "3">> \o ExtCtfparam, id |-> NoId],
      [name |-> <<"c">> \o ExtStar, id |-> 2] }

\* sequences of distinct elements of S, of length at most n
DistinctSeqs(S, n) ==
    UNION { {s \in [1..k -> S] : \A i, j \in 1..k : i # j => s[i] # s[j]}
            : k \in 0..n }

FileNames(fs) == [i \in 1..Len(fs) |-> fs[i].name]

\* getFormat (lines 225-235): the first file with a recognised extension
\* decides
RECURSIVE FormatFrom(_, _)
FormatFrom(fs, i) ==
    IF i > Len(fs) THEN FORMAT_UNKNOWN
    ELSE LET fileName == fs[i].name
         IN  IF \/ EndsWith(fileName, ExtLog)
                \/ EndsWith(fileName, ExtTxt)
                \/ EndsWith(fileName, ExtOut)
             THEN IMPORT_FROM_GRIGORIEFF
             ELSE IF EndsWith(fileName, ExtCtfparam) THEN IMPORT_FROM_XMIPP3
             ELSE IF EndsWith(fileName, ExtJson) THEN IMPORT_FROM_EMAN2
             ELSE FormatFrom(fs, i + 1)

\* mutant: the loop returns after its first file
getFormatFirstFileOnly(fs) ==
    IF Len(fs) = 0 THEN FORMAT_UNKNOWN
    ELSE FormatFrom(SubSeq(fs, 1, 1), 1)

getFormat(fs) == FormatFrom(fs, 1)

\* getImportClass (lines 83-111); "None" is Python's None
getImportClass(choice, fs) ==
    LET resolved == IF choice = IMPORT_FROM_AUTO THEN getFormat(fs) ELSE choice
    IN  IF resolved = IMPORT_FROM_XMIPP3 THEN "XmippImport"
        ELSE IF resolved = IMPORT_FROM_GRIGORIEFF THEN "GrigorieffLabImportCTF"
        ELSE IF resolved = IMPORT_FROM_GCTF THEN "GctfImportCTF"
        ELSE IF resolved = IMPORT_FROM_EMAN2 THEN "EmanImport"
        ELSE IF resolved = IMPORT_FROM_SCIPION THEN "ScipionImport"
        ELSE "None"

\* ci.importCTF(mic, fileName) returns a CTF: with no importer the call is an
\* AttributeError, and the importer raises for the files it cannot read
ImportOk(imp, bad, fileName) == imp # "None" /\ fileName \notin bad

Warn(kind, mic, file) == [kind |-> kind, mic |-> mic, file |-> file]
Result(tag, mic, file, warns) ==
    [tag |-> tag, mic |-> mic, file |-> file, warns |-> warns]

\* line 134
inputMicBases(mics) == [i \in 1..Len(mics) |-> removeBaseExt(mics[i].fileName)]

\* line 146
micConflicts(mic, mics) ==
    LET micBase == removeBaseExt(mic.fileName)
        IsConflict(mc) == Contains(micBase, mc) /\ micBase # mc
    IN  SelectSeq(inputMicBases(mics), IsConflict)

\* mutant: the files matching the base name, conflicts not excluded
goodFnMatchesAnyMatch(mic, mics, fs) ==
    LET micBase == removeBaseExt(mic.fileName)
        Good(f) == Contains(micBase, f)
    IN  SelectSeq(FileNames(fs), Good)

\* line 151
goodFnMatches(mic, mics, fs) ==
    LET micBase == removeBaseExt(mic.fileName)
        conflicts == micConflicts(mic, mics)
        Good(f) == /\ Contains(micBase, f)
                   /\ ~ \E c \in Range(conflicts) : Contains(c, f)
    IN  SelectSeq(FileNames(fs), Good)

\* lines 152-162: the first good match that imports; a warning per failure
RECURSIVE TryGood(_, _, _, _, _, _)
TryGood(mic, good, i, imp, bad, warns) ==
    IF i > Len(good) THEN Result("none", mic.objId, <<>>, warns)
    ELSE IF ImportOk(imp, bad, good[i])
         THEN Result("ctf", mic.objId, good[i],
                     Append(warns, Warn("Assigned", mic.objId, good[i])))
         ELSE TryGood(mic, good, i + 1, imp, bad,
                      Append(warns, Warn("CantImport", mic.objId, good[i])))

\* lines 164-167: the first file matching by id, base name or name
RECURSIVE FirstMatch(_, _, _)
FirstMatch(mic, fs, i) ==
    IF i > Len(fs) THEN 0
    ELSE IF \/ fs[i].id = mic.objId
            \/ Contains(removeBaseExt(mic.fileName), fs[i].name)
            \/ Contains(mic.micName, fs[i].name)
         THEN i
         ELSE FirstMatch(mic, fs, i + 1)

\* _getMicCTF (lines 142-169)
getMicCTFBuiltin(mic, mics, fs, imp, bad) ==
    IF micConflicts(mic, mics) # <<>>
    THEN TryGood(mic, goodFnMatches(mic, mics, fs), 1, imp, bad,
                 <<Warn("Conflict", mic.objId, <<>>)>>)
    ELSE LET k == FirstMatch(mic, fs, 1)
         IN  IF k = 0 THEN Result("none", mic.objId, <<>>, <<>>)
             ELSE IF ImportOk(imp, bad, fs[k].name)
                  THEN Result("ctf", mic.objId, fs[k].name, <<>>)
                  ELSE Result("raise", mic.objId, fs[k].name, <<>>)

NoOutputs == [outputCTF |-> <<"undefined">>,
              outputMicrographs |-> <<"undefined">>,
              ctfRelation |-> <<"undefined">>]

InitExportIdle ==
    /\ xin = <<>>
    /\ xpc = "idle"
    /\ steps = <<>>
    /\ stepIdx = 0
    /\ written = {}
    /\ calls = <<>>

InitImport ==
    /\ importFrom \in ImportChoices \cup {UndeclaredChoice}
    /\ files \in DistinctSeqs(FilePool, MaxFiles)
    /\ inputMics \in DistinctSeqs(MicPool, MaxMics)
    /\ badFiles \in SUBSET Range(FileNames(files))
    /\ ciGetMicCTF \in BOOLEAN
    /\ pc = "new"
    /\ ci = "unset"
    /\ idx = 0
    /\ ctfSet = <<>>
    /\ outputMics = <<>>
    /\ createOutputMics = FALSE
    /\ warnings = <<>>
    /\ outputs = NoOutputs
    /\ validated = FALSE
    /\ errors = <<>>
    /\ raised = "none"
    /\ InitExportIdle

\* mutant: _validate never reports an error
ValidateReportsNothing ==
    /\ validated' = TRUE
    /\ errors' = <<>>
    /\ UNCHANGED <<importFrom, files, inputMics, badFiles, ciGetMicCTF, pc, ci,
                   idx, ctfSet, outputMics, createOutputMics, warnings,
                   outputs, raised>>
    /\ UNCHANGED xvars

\* _validate (lines 216-222): callable at any time, before, during or after
\* the step; it only lists the files
Validate ==
    /\ validated' = TRUE
    /\ errors' = IF Len(files) = 0 THEN <<"No files where found">> ELSE <<>>
    /\ UNCHANGED <<importFrom, files, inputMics, badFiles, ciGetMicCTF, pc, ci,
                   idx, ctfSet, outputMics, createOutputMics, warnings,
                   outputs, raised>>
    /\ UNCHANGED xvars

\* importCTFStep, lines 116-140: resolve the importer, create the empty sets,
\* list the files; no file is an exception.  The step does not consult what
\* _validate returned.
StartImport ==
    /\ pc = "new"
    /\ ci' = getImportClass(importFrom, files)
    /\ ctfSet' = <<>>
    /\ outputMics' = <<>>
    /\ createOutputMics' = FALSE
    /\ IF Len(files) = 0
       THEN /\ raised' = "No files where found"
            /\ pc' = "failed"
            /\ UNCHANGED <<warnings, idx>>
       ELSE /\ raised' = "none"
            /\ pc' = "loop"
            /\ idx' = 1
            /\ warnings' = IF Len(files) > Len(inputMicBases(inputMics))
                           THEN Append(warnings, Warn("TooManyFiles", 0, <<>>))
                           ELSE warnings
    /\ UNCHANGED <<importFrom, files, inputMics, badFiles, ciGetMicCTF,
                   outputs, validated, errors>>
    /\ UNCHANGED xvars

\* line 173: the importer's own getMicCTF if it has one, else _getMicCTF
UsesBuiltin == ci = "None" \/ ~ ciGetMicCTF

\* what an importer's own getMicCTF(mic) may return for a micrograph: a CTF
\* it found by its own means (no file name is passed to it), or None
PluginResults(mic) ==
    {Result("none", mic.objId, <<>>, <<>>), Result("ctf", mic.objId, <<>>, <<>>)}

\* mutant: a micrograph without CTF is warned about but kept in the output
LoopBodyKeepsMic(mic, r) ==
    /\ warnings' = IF r.tag = "none"
                   THEN Append(warnings \o r.warns,
                               Warn("NotFound", mic.objId, <<>>))
                   ELSE warnings \o r.warns
    /\ IF r.tag = "raise"
       THEN /\ raised' = "importCTF"
            /\ pc' = "failed"
            /\ UNCHANGED <<ctfSet, outputMics, createOutputMics, idx>>
       ELSE /\ outputMics' = Append(outputMics, mic)
            /\ IF r.tag = "ctf"
               THEN /\ ctfSet' = Append(ctfSet, [mic |-> r.mic, file |-> r.file])
                    /\ UNCHANGED createOutputMics
               ELSE /\ createOutputMics' = TRUE
                    /\ UNCHANGED ctfSet
            /\ idx' = idx + 1
            /\ UNCHANGED <<pc, raised>>

\* one iteration of the loop of lines 175-184
LoopBody(mic, r) ==
    /\ warnings' = IF r.tag = "none"
                   THEN Append(warnings \o r.warns,
                               Warn("NotFound", mic.objId, <<>>))
                   ELSE warnings \o r.warns
    /\ IF r.tag = "raise"
       THEN /\ raised' = "importCTF"
            /\ pc' = "failed"
            /\ UNCHANGED <<ctfSet, outputMics, createOutputMics, idx>>
       ELSE /\ IF r.tag = "ctf"
               THEN /\ ctfSet' = Append(ctfSet, [mic |-> r.mic, file |-> r.file])
                    /\ outputMics' = Append(outputMics, mic)
                    /\ UNCHANGED createOutputMics
               ELSE /\ createOutputMics' = TRUE
                    /\ UNCHANGED <<ctfSet, outputMics>>
            /\ idx' = idx + 1
            /\ UNCHANGED <<pc, raised>>

ProcessMic ==
    /\ pc = "loop"
    /\ idx <= Len(inputMics)
    /\ LET mic == inputMics[idx]
       IN  IF UsesBuiltin
           THEN LoopBody(mic, getMicCTFBuiltin(mic, inputMics, files, ci, badFiles))
           ELSE \E r \in PluginResults(mic) : LoopBody(mic, r)
    /\ UNCHANGED <<importFrom, files, inputMics, badFiles, ciGetMicCTF, ci,
                   outputs, validated, errors>>
    /\ UNCHANGED xvars

\* mutant: the CTF relation is always defined with the input micrographs
DefineOutputsRelatesInput ==
    /\ pc = "loop"
    /\ idx > Len(inputMics)
    /\ outputs' = [outputCTF |-> <<"set", ctfSet>>,
                   outputMicrographs |-> IF createOutputMics
                                         THEN <<"set", outputMics>>
                                         ELSE <<"undefined">>,
                   ctfRelation |-> <<"rel", inputMics, ctfSet>>]
    /\ pc' = "done"
    /\ UNCHANGED <<importFrom, files, inputMics, badFiles, ciGetMicCTF, ci, idx,
                   ctfSet, outputMics, createOutputMics, warnings, validated,
                   errors, raised>>
    /\ UNCHANGED xvars

\* lines 186-193
DefineOutputs ==
    /\ pc = "loop"
    /\ idx > Len(inputMics)
    /\ outputs' = IF createOutputMics
                  THEN [outputCTF |-> <<"set", ctfSet>>,
                        outputMicrographs |-> <<"set", outputMics>>,
                        ctfRelation |-> <<"rel", outputMics, ctfSet>>]
                  ELSE [outputCTF |-> <<"set", ctfSet>>,
                        outputMicrographs |-> <<"undefined">>,
                        ctfRelation |-> <<"rel", inputMics, ctfSet>>]
    /\ pc' = "done"
    /\ UNCHANGED <<importFrom, files, inputMics, badFiles, ciGetMicCTF, ci, idx,
                   ctfSet, outputMics, createOutputMics, warnings, validated,
                   errors, raised>>
    /\ UNCHANGED xvars

NextImport == Validate \/ StartImport \/ ProcessMic \/ DefineOutputs

SpecImport == InitImport /\ [][NextImport]_vars

\* ---------------------------------------------------- ProtExportDataBases
MaxItems == 2

ExtPdb == <<".", "p", "d", "b">>
ExtCif == <<".", "c", "i", "f">>

\* the file names of the atomic structures the inputs are drawn from
AtomStructPool ==
    { <<"a">> \o ExtPdb, <<"a">> \o ExtCif, <<"a", ".", "e", "n", "t">>,
      <<"a", ".", "m", "m", "c", "i", "f">> }

\* a path below the export directory: its sub-directory, the class constant
\* naming the file and the counter formatted into it (0: none)
ExportPath(dir, name, n) == [dir |-> dir, name |-> name, n |-> n]
VOLUMENAME == ExportPath("", "main_map.mrc", 0)
HALFVOLUMENAME(n) == ExportPath("", "half_map_%d.mrc", n)
COORDINATEFILENAME == ExportPath("", "coordinates.cif", 0)
ADDITIONALVOLUMENAME(n) == ExportPath("addMaps", "map_%02d.mrc", n)
MASKNAME(n) == ExportPath("masks", "mask_%02d.mrc", n)
FSCNAME(n) == ExportPath("", "fsc_%02d.xml", n)
PICTURENAME == ExportPath("", "basename(exportPicture)", 0)

\* The export form (lines 57-101).  Pointer parameters allow null; the lists
\* of additional maps and masks are only asked for when their flag is set.
ExportInputs ==
    { x \in [ dirOk : BOOLEAN,
              volume : {"None", "Volume", "VolumeWithHalfMaps"},
              additionalVolumesToExport : BOOLEAN,
              nAdditionalVolumes : 0..MaxItems,
              fsc : {"None", "FSC", "SetOfFSCs"},
              nFSCs : 0..MaxItems,
              masksToExport : BOOLEAN,
              nMasks : 0..MaxItems,
              atomStructSet : BOOLEAN,
              atomStructFile : AtomStructPool \cup {<<>>},
              pictureSet : BOOLEAN ] :
        /\ x.additionalVolumesToExport \/ x.nAdditionalVolumes = 0
        /\ x.masksToExport \/ x.nMasks = 0
        /\ x.nFSCs = (IF x.fsc = "None" THEN 0
                      ELSE IF x.fsc = "FSC" THEN 1 ELSE x.nFSCs)
        /\ x.atomStructSet <=> x.atomStructFile # <<>> }

\* Python's truth value of a Pointer parameter object itself (line 111 tests
\* self.exportFSC, not self.exportFSC.get()): an object that defines neither
\* __bool__ nor __len__ is true, whether or not it points to anything
PointerParamIsTrue(pointsTo) == TRUE

InsertIf(cond, step) == IF cond THEN <<step>> ELSE <<>>

\* _insertAllSteps (lines 104-118)
insertAllSteps(x) ==
    <<"createDirectoryStep">>
    \o InsertIf(x.volume # "None", "exportVolumeStep")
    \o InsertIf(x.additionalVolumesToExport, "exportAdditionalVolumeStep")
    \o InsertIf(PointerParamIsTrue(x.fsc), "exportFSCStep")
    \o InsertIf(x.masksToExport, "exportMasksStep")
    \o InsertIf(x.atomStructSet, "exportAtomStructStep")
    \o InsertIf(x.pictureSet, "exportImageStep")

InitImportIdle ==
    /\ importFrom = IMPORT_FROM_AUTO
    /\ files = <<>>
    /\ inputMics = <<>>
    /\ badFiles = {}
    /\ ciGetMicCTF = FALSE
    /\ pc = "idle"
    /\ ci = "unset"
    /\ idx = 0
    /\ ctfSet = <<>>
    /\ outputMics = <<>>
    /\ createOutputMics = FALSE
    /\ warnings = <<>>
    /\ outputs = NoOutputs
    /\ validated = FALSE
    /\ errors = <<>>
    /\ raised = "none"

InitExport ==
    /\ xin \in ExportInputs
    /\ xpc = "new"
    /\ steps = <<>>
    /\ stepIdx = 0
    /\ written = {}
    /\ calls = <<>>
    /\ InitImportIdle

InsertAllSteps ==
    /\ xpc = "new"
    /\ steps' = insertAllSteps(xin)
    /\ stepIdx' = 1
    /\ xpc' = "running"
    /\ UNCHANGED <<xin, written, calls>>
    /\ UNCHANGED ivars

AtStep(name) ==
    /\ xpc = "running"
    /\ stepIdx <= Len(steps)
    /\ steps[stepIdx] = name

StepDone == /\ stepIdx' = stepIdx + 1
            /\ UNCHANGED <<xin, xpc, steps>>
            /\ UNCHANGED ivars

StepFailed == /\ xpc' = "failed"
              /\ UNCHANGED <<xin, steps, stepIdx, written, calls>>
              /\ UNCHANGED ivars

Call(fn, src, dst) == [fn |-> fn, src |-> src, dst |-> dst]

\* createDirectoryStep (lines 122-128)
CreateDirectoryStep ==
    /\ AtStep("createDirectoryStep")
    /\ IF xin.dirOk
       THEN StepDone /\ UNCHANGED <<written, calls>>
       ELSE StepFailed

\* exportVolumeStep (lines 130-143)
ExportVolumeStep ==
    /\ AtStep("exportVolumeStep")
    /\ written' = written \cup {VOLUMENAME}
                  \cup (IF xin.volume = "VolumeWithHalfMaps"
                        THEN {HALFVOLUMENAME(1), HALFVOLUMENAME(2)} ELSE {})
    /\ calls' = calls
                \o <<Call("convert", "exportVolume", VOLUMENAME)>>
                \o (IF xin.volume = "VolumeWithHalfMaps"
                    THEN <<Call("convert", "half_map", HALFVOLUMENAME(1)),
                           Call("convert", "half_map", HALFVOLUMENAME(2))>>
                    ELSE <<>>)
    /\ StepDone

\* exportAdditionalVolumeStep (lines 145-152)
ExportAdditionalVolumeStep ==
    /\ AtStep("exportAdditionalVolumeStep")
    /\ written' = written
                  \cup {ADDITIONALVOLUMENAME(n) : n \in 1..xin.nAdditionalVolumes}
    /\ calls' = calls \o [n \in 1..xin.nAdditionalVolumes |->
                             Call("convert", "map", ADDITIONALVOLUMENAME(n))]
    /\ StepDone

\* exportFSCStep (lines 154-176): with nothing pointed to, fscSet is None and
\* enumerate(fscSet, 1) is a TypeError
ExportFSCStep ==
    /\ AtStep("exportFSCStep")
    /\ IF xin.fsc = "None"
       THEN StepFailed
       ELSE /\ written' = written \cup {FSCNAME(n) : n \in 1..xin.nFSCs}
            /\ UNCHANGED calls
            /\ StepDone

\* exportMasksStep (lines 178-185)
ExportMasksStep ==
    /\ AtStep("exportMasksStep")
    /\ written' = written \cup {MASKNAME(n) : n \in 1..xin.nMasks}
    /\ calls' = calls \o [n \in 1..xin.nMasks |->
                             Call("convert", "mask", MASKNAME(n))]
    /\ StepDone

\* the body of exportAtomStructStep (lines 187-204): the converter calls made
\* for a source file name
atomStructCalls(originStructPath) ==
    LET destinyStructPath == COORDINATEFILENAME
    IN  IF EndsWith(originStructPath, ExtPdb)
        THEN <<Call("fromPDBToCIF", originStructPath, destinyStructPath),
               Call("fromCIFTommCIF", destinyStructPath, destinyStructPath)>>
        ELSE IF EndsWith(originStructPath, ExtCif)
        THEN <<Call("fromCIFTommCIF", originStructPath, destinyStructPath)>>
        ELSE <<>>

\* exportAtomStructStep (lines 187-204)
ExportAtomStructStep ==
    /\ AtStep("exportAtomStructStep")
    /\ LET made == atomStructCalls(xin.atomStructFile)
       IN  /\ calls' = calls \o made
           /\ written' = written \cup {made[i].dst : i \in 1..Len(made)}
    /\ StepDone

\* exportImageStep (lines 206-209)
ExportImageStep ==
    /\ AtStep("exportImageStep")
    /\ written' = written \cup {PICTURENAME}
    /\ calls' = Append(calls, Call("copyFile", "exportPicture", PICTURENAME))
    /\ StepDone

\* every inserted step has run
FinishExport ==
    /\ xpc = "running"
    /\ stepIdx > Len(steps)
    /\ xpc' = "finished"
    /\ UNCHANGED <<xin, steps, stepIdx, written, calls>>
    /\ UNCHANGED ivars

NextExport ==
    \/ InsertAllSteps
    \/ CreateDirectoryStep
    \/ ExportVolumeStep
    \/ ExportAdditionalVolumeStep
    \/ ExportFSCStep
    \/ ExportMasksStep
    \/ ExportAtomStructStep
    \/ ExportImageStep
    \/ FinishExport

SpecExport == InitExport /\ [][NextExport]_vars

\* ---------------------------------------------------------- claims, export
\* the steps whose input is set, in the order of the form
StepsOfSetInputs ==
    <<"createDirectoryStep">>
    \o InsertIf(xin.volume # "None", "exportVolumeStep")
    \o InsertIf(xin.additionalVolumesToExport, "exportAdditionalVolumeStep")
    \o InsertIf(xin.fsc # "None", "exportFSCStep")
    \o InsertIf(xin.masksToExport, "exportMasksStep")
    \o InsertIf(xin.atomStructSet, "exportAtomStructStep")
    \o InsertIf(xin.pictureSet, "exportImageStep")

\* C1: _insertAllSteps inserts createDirectoryStep first, followed by exactly
\* the export steps whose input is set, in the fixed order, each at most once.
C1_StepsOfSetInputsInOrder ==
    xpc # "new" =>
        /\ steps = StepsOfSetInputs
        /\ steps[1] = "createDirectoryStep"
        /\ \A i, j \in 1..Len(steps) : i # j => steps[i] # steps[j]

HasRun(name) ==
    \E i \in 1..Len(steps) : steps[i] = name /\ i < stepIdx

\* C5: once exportAtomStructStep has run, coordinates.cif is written: by
\* PDB-to-CIF then CIF-to-mmCIF on the destination for a .pdb source, by
\* CIF-to-mmCIF from the source for a .cif source, and for every source name.
C5_AtomStructExportedAsMmCIF ==
    HasRun("exportAtomStructStep") =>
        /\ COORDINATEFILENAME \in written
        /\ EndsWith(xin.atomStructFile, ExtPdb) =>
               \E k \in 1..(Len(calls) - 1) :
                   /\ calls[k] = Call("fromPDBToCIF", xin.atomStructFile,
                                      COORDINATEFILENAME)
                   /\ calls[k + 1] = Call("fromCIFTommCIF", COORDINATEFILENAME,
                                          COORDINATEFILENAME)
        /\ EndsWith(xin.atomStructFile, ExtCif) =>
               \E k \in 1..Len(calls) :
                   calls[k] = Call("fromCIFTommCIF", xin.atomStructFile,
                                   COORDINATEFILENAME)

\* ------------------------------------------------------ claims, import CTF
MicBase(m) == removeBaseExt(m.fileName)
InputMic(id) == CHOOSE m \in Range(inputMics) : m.objId = id
\* the base names of the other input micrographs that properly contain m's
ConflictingBases(m) ==
    {MicBase(o) : o \in {o \in Range(inputMics) :
                         Contains(MicBase(m), MicBase(o)) /\ MicBase(m) # MicBase(o)}}

\* C2: with the built-in matcher, a CTF file assigned to a micrograph whose
\* base name is a proper substring of other input micrographs' base names
\* contains that micrograph's base name and none of the conflicting ones.
C2_AmbiguousMatchBelongsToMic ==
    UsesBuiltin =>
        \A i \in 1..Len(ctfSet) :
            LET m == InputMic(ctfSet[i].mic)
            IN  ConflictingBases(m) # {} =>
                    /\ Contains(MicBase(m), ctfSet[i].file)
                    /\ \A c \in ConflictingBases(m) : ~ Contains(c, ctfSet[i].file)

\* C2 witness: a micrograph with a conflict got a CTF although a file of the
\* conflicting micrograph, which also contains its base name, came first.
C2_Witness ==
    /\ UsesBuiltin
    /\ \E i \in 1..Len(ctfSet) :
          LET m == InputMic(ctfSet[i].mic)
          IN  /\ ConflictingBases(m) # {}
              /\ Contains(MicBase(m), files[1].name)
              /\ \E c \in ConflictingBases(m) : Contains(c, files[1].name)
              /\ ctfSet[i].file = files[2].name

Reported(kind, id) ==
    \E k \in 1..Len(warnings) : warnings[k].kind = kind /\ warnings[k].mic = id

\* C3: with the built-in matcher, importCTFStep never ends with the
\* importer's exception: a micrograph whose import fails is warned about and
\* skipped, and a run past the file listing completes or is still looping.
C3_FailureIsWarnAndSkip ==
    UsesBuiltin =>
        /\ raised # "importCTF"
        /\ pc = "failed" => raised = "No files where found"
        /\ pc = "done" =>
               /\ outputs.outputCTF = <<"set", ctfSet>>
               /\ \A m \in Range(inputMics) :
                      m \notin Range(outputMics) => Reported("NotFound", m.objId)

\* C4: getImportClass returns the importer of the explicit choice, for auto
\* the importer of the first recognised extension, and None exactly for auto
\* with no recognised extension or a choice outside the declared ones.
Recognised(f) ==
    \/ EndsWith(f, ExtLog) \/ EndsWith(f, ExtTxt) \/ EndsWith(f, ExtOut)
    \/ EndsWith(f, ExtCtfparam) \/ EndsWith(f, ExtJson)
ImporterOfFile(f) ==
    IF EndsWith(f, ExtCtfparam) THEN "XmippImport"
    ELSE IF EndsWith(f, ExtJson) THEN "EmanImport"
    ELSE "GrigorieffLabImportCTF"
RecognisedAt == {i \in 1..Len(files) : Recognised(files[i].name)}
C4_ImporterByChoice ==
    ci # "unset" =>
        /\ importFrom = IMPORT_FROM_XMIPP3 => ci = "XmippImport"
        /\ importFrom = IMPORT_FROM_GRIGORIEFF => ci = "GrigorieffLabImportCTF"
        /\ importFrom = IMPORT_FROM_GCTF => ci = "GctfImportCTF"
        /\ importFrom = IMPORT_FROM_EMAN2 => ci = "EmanImport"
        /\ importFrom = IMPORT_FROM_SCIPION => ci = "ScipionImport"
        /\ (importFrom = IMPORT_FROM_AUTO /\ RecognisedAt # {}) =>
               \E k \in RecognisedAt :
                   /\ \A j \in RecognisedAt : k <= j
                   /\ ci = ImporterOfFile(files[k].name)
        /\ ci = "None" <=>
               \/ importFrom = IMPORT_FROM_AUTO /\ RecognisedAt = {}
               \/ importFrom \notin ImportChoices
        /\ importFrom = IMPORT_FROM_AUTO =>
               ci \notin {"GctfImportCTF", "ScipionImport"}

\* C4 witness: auto resolved through a second file, the first one having no
\* recognised extension.
C4_Witness ==
    /\ ci = "EmanImport"
    /\ importFrom = IMPORT_FROM_AUTO
    /\ Len(files) = 2
    /\ ~ Recognised(files[1].name)

IsSubsequenceInOrder(sub, full) ==
    /\ \A i \in 1..Len(sub) : \E j \in 1..Len(full) : full[j] = sub[i]
    /\ \A i, j \in 1..Len(sub) :
           i < j => \E a, b \in 1..Len(full) :
                        a < b /\ full[a] = sub[i] /\ full[b] = sub[j]

\* C6: when importCTFStep completes, the CTF set and the output micrographs
\* have the same length, the i-th CTF is the one obtained for the i-th output
\* micrograph, the output micrographs are the input ones in input order with
\* none repeated, and every input micrograph is either in the output or
\* reported as not found, never both.
C6_SetsAligned ==
    pc = "done" =>
        /\ Len(ctfSet) = Len(outputMics)
        /\ \A i \in 1..Len(ctfSet) :
               /\ ctfSet[i].mic = outputMics[i].objId
               /\ UsesBuiltin =>
                      ctfSet[i].file =
                          getMicCTFBuiltin(outputMics[i], inputMics, files,
                                           ci, badFiles).file
        /\ IsSubsequenceInOrder(outputMics, inputMics)
        /\ \A i, j \in 1..Len(outputMics) : i # j => outputMics[i] # outputMics[j]
        /\ \A m \in Range(inputMics) :
               (m \in Range(outputMics)) <=> ~ Reported("NotFound", m.objId)

\* C6 witness: a completed run that kept one micrograph and dropped another
\* one that came before it.
C6_Witness ==
    /\ pc = "done"
    /\ Len(inputMics) = 2
    /\ outputMics = <<inputMics[2]>>
    /\ Reported("NotFound", inputMics[1].objId)

\* C7: when importCTFStep completes, outputCTF is defined; outputMicrographs
\* is defined iff some input micrograph got no CTF, and then the CTF relation
\* is between the reduced micrograph set and the CTF set, otherwise between
\* the input micrographs and the CTF set.
SomeMicWithoutCTF ==
    \E m \in Range(inputMics) :
        \A i \in 1..Len(ctfSet) : ctfSet[i].mic # m.objId
C7_OutputMicsIffMissing ==
    pc = "done" =>
        /\ outputs.outputCTF = <<"set", ctfSet>>
        /\ (outputs.outputMicrographs # <<"undefined">>) <=> SomeMicWithoutCTF
        /\ SomeMicWithoutCTF =>
               /\ outputs.outputMicrographs = <<"set", outputMics>>
               /\ outputs.ctfRelation = <<"rel", outputMics, ctfSet>>
               /\ Len(outputMics) < Len(inputMics)
        /\ ~ SomeMicWithoutCTF =>
               outputs.ctfRelation = <<"rel", inputMics, ctfSet>>

\* C7 witness: a completed run where no micrograph got a CTF, so outputCTF is
\* defined and empty and outputMicrographs is defined.
C7_Witness ==
    /\ pc = "done"
    /\ inputMics # <<>>
    /\ outputs.outputCTF = <<"set", <<>>>>
    /\ outputs.outputMicrographs = <<"set", <<>>>>

\* C8: with no matching file importCTFStep raises 'No files where found'
\* before any micrograph is processed or any output defined; _validate
\* reports an error exactly when there is no file, so a run whose validation
\* reported no error never raises it.
C8_NoFilesFailsEarly ==
    /\ (Len(files) = 0 /\ pc # "new") =>
           /\ pc = "failed"
           /\ raised = "No files where found"
           /\ idx = 0
           /\ ctfSet = <<>>
           /\ outputMics = <<>>
           /\ warnings = <<>>
           /\ outputs = NoOutputs
    /\ raised = "No files where found" => Len(files) = 0
    /\ validated => ((errors # <<>>) <=> Len(files) = 0)
    /\ (validated /\ errors = <<>>) => raised # "No files where found"

\* C8 witness: with micrographs and no file, _validate reported its error and
\* importCTFStep, run all the same, ended with the exception.
C8_Witness ==
    /\ raised = "No files where found"
    /\ pc = "failed"
    /\ inputMics # <<>>
    /\ validated
    /\ errors # <<>>

====
